---- MODULE Spec2Model ----
(***************************************************************************)
(* Model of craft_planner.py: the State mapping, the compiled recipe       *)
(* closures (check, effect), the goal predicate, the transition graph, the *)
(* shipped heuristic and the time-bounded best-first search.               *)
(***************************************************************************)
EXTENDS Integers, Sequences, FiniteSets, TLC

VARIABLES
    all_recipes,   \* the global recipe list built in __main__
    goal,          \* Crafting['Goal'], captured by is_goal
    state,         \* the start State handed to search
    limit,         \* search's time limit, in clock ticks
    h,             \* the heuristic handed to search
    queue,         \* search: the heap of (priority, state) entries
    cost_so_far,   \* search: State -> cost
    came_from,     \* search: State -> predecessor State or None
    actions,       \* search: State -> recipe name or None
    path,          \* search: the list returned on success
    expanded,      \* search: the popped entries whose neighbours were enumerated
    elapsed,       \* time() - start_time, in clock ticks
    pc,            \* where search is: in its loop, or how it ended
    called,        \* the last direct call of a compiled function
    returned       \* what that call returned, under the function's name

vars == <<all_recipes, goal, state, limit, h, queue, cost_so_far, came_from,
          actions, path, expanded, elapsed, pc, called, returned>>

inputVars == <<all_recipes, goal, state, limit, h>>

----------------------------------------------------------------------------
(* Bounds of the model *)

MaxQty == 3        \* largest quantity of an item that search explores
MaxRecipes == 3    \* longest recipe list handed to search
MaxLimit == 1      \* largest time limit, in clock ticks
MaxAmt == 1        \* largest amount in a clause of a directly called rule

----------------------------------------------------------------------------
(* Python values *)

None == <<>>
Some(x) == <<x>>

inf == 1000000

\* float addition with math.inf: anything plus inf is inf
Plus(a, b) == IF a = inf \/ b = inf THEN inf ELSE a + b

\* dict item assignment d[k] = v: replaces the value or adds the key
Put(d, k, v) == [x \in DOMAIN d \cup {k} |-> IF x = k THEN v ELSE d[x]]

----------------------------------------------------------------------------
(* State *)

\* Crafting['Items'], in declaration order
Items == <<"bench", "wooden_axe", "wood">>

ItemSet == {Items[i] : i \in DOMAIN Items}

\* State({key: 0 for key in Items}) updated with the initial inventory
NewState(initial) ==
    [k \in ItemSet |-> IF k \in DOMAIN initial THEN initial[k] ELSE 0]

\* State.__key: the quantities in key order (every State of one run has the
\* same keys in the same order, so the keys themselves never decide)
State_key(st) == [i \in 1..Len(Items) |-> st[Items[i]]]

RECURSIVE TupleLt(_, _, _)
TupleLt(a, b, i) ==
    IF i > Len(a) \/ i > Len(b) THEN Len(a) < Len(b)
    ELSE IF a[i] = b[i] THEN TupleLt(a, b, i + 1)
    ELSE a[i] < b[i]

\* State.__lt__
State_lt(a, b) == TupleLt(State_key(a), State_key(b), 1)

----------------------------------------------------------------------------
(* Recipe compiler *)

\* check with the stock compared one too strictly
check_le(rule, st) ==
    IF "Consumes" \in DOMAIN rule
       /\ \E consumedItem \in DOMAIN rule.Consumes :
              st[consumedItem] - rule.Consumes[consumedItem] <= 0
    THEN FALSE
    ELSE IF "Requires" \in DOMAIN rule
            /\ \E requiredItem \in DOMAIN rule.Requires : st[requiredItem] = 0
    THEN FALSE
    ELSE TRUE

\* check without its Consumes loop
check_noConsumes(rule, st) ==
    IF "Requires" \in DOMAIN rule
       /\ \E requiredItem \in DOMAIN rule.Requires : st[requiredItem] = 0
    THEN FALSE
    ELSE TRUE

\* make_checker(rule).check
check(rule, st) ==
    IF "Consumes" \in DOMAIN rule
       /\ \E consumedItem \in DOMAIN rule.Consumes :
              st[consumedItem] - rule.Consumes[consumedItem] < 0
    THEN FALSE
    ELSE IF "Requires" \in DOMAIN rule
            /\ \E requiredItem \in DOMAIN rule.Requires : st[requiredItem] = 0
    THEN FALSE
    ELSE TRUE

\* make_effector(rule).effect: both loops read the input state and write
\* the copy, the Consumes loop after the Produces loop
effect(rule, st) ==
    LET produced ==
            IF "Produces" \in DOMAIN rule
            THEN [k \in DOMAIN st \cup DOMAIN rule.Produces |->
                    IF k \in DOMAIN rule.Produces
                    THEN st[k] + rule.Produces[k] ELSE st[k]]
            ELSE st
    IN  IF "Consumes" \in DOMAIN rule
        THEN [k \in DOMAIN produced \cup DOMAIN rule.Consumes |->
                IF k \in DOMAIN rule.Consumes
                THEN st[k] - rule.Consumes[k] ELSE produced[k]]
        ELSE produced

\* Recipe(name, checker, effector, rule['Time']); the two closures are
\* represented by the rule they captured
Recipe(name, rule) == [name |-> name, rule |-> rule, cost |-> rule.Time]

\* is_goal asking for more than the minimum
is_goal_le(g, st) == ~ \E singleGoal \in DOMAIN g : st[singleGoal] <= g[singleGoal]

\* make_goal_checker(goal).is_goal
is_goal(g, st) == ~ \E singleGoal \in DOMAIN g : st[singleGoal] < g[singleGoal]

\* graph yielding a triple for every recipe, applicable or not
RECURSIVE graphFrom_unchecked(_, _, _)
graphFrom_unchecked(recipes, i, st) ==
    IF i > Len(recipes) THEN <<>>
    ELSE <<<<recipes[i].name, effect(recipes[i].rule, st), recipes[i].cost>>>>
         \o graphFrom_unchecked(recipes, i + 1, st)

\* graph(state): the triples the generator yields, in order
RECURSIVE graphFrom(_, _, _)
graphFrom(recipes, i, st) ==
    IF i > Len(recipes) THEN <<>>
    ELSE LET r == recipes[i]
         IN  IF check(r.rule, st)
             THEN <<<<r.name, effect(r.rule, st), r.cost>>>>
                  \o graphFrom(recipes, i + 1, st)
             ELSE graphFrom(recipes, i + 1, st)

graph(recipes, st) == graphFrom(recipes, 1, st)

----------------------------------------------------------------------------
(* Heuristics *)

tools == <<"bench", "wooden_pickaxe", "wooden_axe", "stone_axe",
           "stone_pickaxe", "iron_pickaxe", "iron_axe", "furnace">>

\* heuristic(state): the loop body returns on its first pass
heuristic(st) ==
    IF Len(tools) = 0 THEN 0
    ELSE IF st[tools[1]] > 1 THEN inf ELSE 0

\* a heuristic given by a table over whether the state holds a wooden_axe
HIndex(st) == IF st["wooden_axe"] > 0 THEN 1 ELSE 0

\* the heuristic argument of search, applied to a state
H(hh, st) ==
    CASE hh.kind = "zero"    -> 0
      [] hh.kind = "shipped" -> heuristic(st)
      [] hh.kind = "table"   -> hh.table[HIndex(st)]

----------------------------------------------------------------------------
(* heapq on a list of (priority, state) tuples *)

\* tuple comparison: priority first, then State.__lt__
EntryLt(e1, e2) ==
    \/ e1[1] < e2[1]
    \/ e1[1] = e2[1] /\ State_lt(e1[2], e2[2])

\* a plain append in place of heappush
heappush_append(q, e) == Append(q, e)

\* heappush; the heap is kept as the sorted list of its entries, whose head
\* is the entry heappop returns
heappush(q, e) ==
    LET n == Cardinality({i \in DOMAIN q : EntryLt(q[i], e)})
    IN  SubSeq(q, 1, n) \o <<e>> \o SubSeq(q, n + 1, Len(q))

----------------------------------------------------------------------------
(* search *)

\* the loop body leaving a neighbour of infinite heuristic off the frontier
RelaxOne_pruneInf(adj, cur, hh, t) ==
    LET adj_action == adj[1]
        adj_state == adj[2]
        adj_cost == adj[3]
        new_cost == t.cost_so_far[cur] + adj_cost
    IN  IF adj_state \notin DOMAIN t.cost_so_far
           \/ new_cost < t.cost_so_far[adj_state]
        THEN [cost_so_far |-> Put(t.cost_so_far, adj_state, new_cost),
              actions |-> Put(t.actions, adj_state, Some(adj_action)),
              queue |-> IF H(hh, adj_state) = inf THEN t.queue
                        ELSE heappush(t.queue,
                               <<Plus(new_cost, H(hh, adj_state)), adj_state>>),
              came_from |-> Put(t.came_from, adj_state, Some(cur))]
        ELSE t

\* the loop body pushing at the cost alone, without the heuristic
RelaxOne_costOnly(adj, cur, hh, t) ==
    LET adj_action == adj[1]
        adj_state == adj[2]
        adj_cost == adj[3]
        new_cost == t.cost_so_far[cur] + adj_cost
    IN  IF adj_state \notin DOMAIN t.cost_so_far
           \/ new_cost < t.cost_so_far[adj_state]
        THEN [cost_so_far |-> Put(t.cost_so_far, adj_state, new_cost),
              actions |-> Put(t.actions, adj_state, Some(adj_action)),
              queue |-> heappush(t.queue, <<new_cost, adj_state>>),
              came_from |-> Put(t.came_from, adj_state, Some(cur))]
        ELSE t

\* the loop body also rewriting a neighbour at an equal cost
RelaxOne_le(adj, cur, hh, t) ==
    LET adj_action == adj[1]
        adj_state == adj[2]
        adj_cost == adj[3]
        new_cost == t.cost_so_far[cur] + adj_cost
    IN  IF adj_state \notin DOMAIN t.cost_so_far
           \/ new_cost <= t.cost_so_far[adj_state]
        THEN [cost_so_far |-> Put(t.cost_so_far, adj_state, new_cost),
              actions |-> Put(t.actions, adj_state, Some(adj_action)),
              queue |-> heappush(t.queue,
                          <<Plus(new_cost, H(hh, adj_state)), adj_state>>),
              came_from |-> Put(t.came_from, adj_state, Some(cur))]
        ELSE t

\* the loop body keeping the first predecessor when it lowers a cost
RelaxOne_keepCameFrom(adj, cur, hh, t) ==
    LET adj_action == adj[1]
        adj_state == adj[2]
        adj_cost == adj[3]
        new_cost == t.cost_so_far[cur] + adj_cost
    IN  IF adj_state \notin DOMAIN t.cost_so_far
           \/ new_cost < t.cost_so_far[adj_state]
        THEN [cost_so_far |-> Put(t.cost_so_far, adj_state, new_cost),
              actions |-> IF adj_state \in DOMAIN t.actions THEN t.actions
                          ELSE Put(t.actions, adj_state, Some(adj_action)),
              queue |-> heappush(t.queue,
                          <<Plus(new_cost, H(hh, adj_state)), adj_state>>),
              came_from |-> IF adj_state \in DOMAIN t.came_from THEN t.came_from
                            ELSE Put(t.came_from, adj_state, Some(cur))]
        ELSE t

\* the loop body forgetting to record the action
RelaxOne_noAction(adj, cur, hh, t) ==
    LET adj_state == adj[2]
        adj_cost == adj[3]
        new_cost == t.cost_so_far[cur] + adj_cost
    IN  IF adj_state \notin DOMAIN t.cost_so_far
           \/ new_cost < t.cost_so_far[adj_state]
        THEN [cost_so_far |-> Put(t.cost_so_far, adj_state, new_cost),
              actions |-> t.actions,
              queue |-> heappush(t.queue,
                          <<Plus(new_cost, H(hh, adj_state)), adj_state>>),
              came_from |-> Put(t.came_from, adj_state, Some(cur))]
        ELSE t

\* the body of the for loop over graph(current_state), for the triple adj;
\* t holds queue, cost_so_far, came_from and actions
RelaxOne(adj, cur, hh, t) ==
    LET adj_action == adj[1]
        adj_state == adj[2]
        adj_cost == adj[3]
        new_cost == t.cost_so_far[cur] + adj_cost
    IN  IF adj_state \notin DOMAIN t.cost_so_far
           \/ new_cost < t.cost_so_far[adj_state]
        THEN [cost_so_far |-> Put(t.cost_so_far, adj_state, new_cost),
              actions |-> Put(t.actions, adj_state, Some(adj_action)),
              queue |-> heappush(t.queue,
                          <<Plus(new_cost, H(hh, adj_state)), adj_state>>),
              came_from |-> Put(t.came_from, adj_state, Some(cur))]
        ELSE t

\* the for loop over graph(current_state), from the i-th triple on; what one
\* pass leaves is computed once (t2) and handed to the next pass
RECURSIVE Relax(_, _, _, _, _)
Relax(triples, i, cur, hh, t) ==
    IF i > Len(triples) THEN t
    ELSE CHOOSE r \in {Relax(triples, i + 1, cur, hh, t2) :
                          t2 \in {RelaxOne(triples[i], cur, hh, t)}} : TRUE

\* the links appended while walking came_from back from cs
RECURSIVE Links(_, _, _)
Links(cf, ac, cs) ==
    IF cs = None THEN <<>>
    ELSE <<<<cs[1], ac[cs[1]]>>>> \o Links(cf, ac, cf[cs[1]])

\* the path left as it was collected, goal first
Reverse_noop(sq) == sq

\* path.reverse()
Reverse(sq) == [i \in 1..Len(sq) |-> sq[Len(sq) + 1 - i]]

\* every neighbour among the triples stays within the explored quantities
WithinBound(triples) ==
    \A i \in DOMAIN triples : \A k \in DOMAIN triples[i][2] :
        triples[i][2][k] <= MaxQty

\* the clock advances by zero or one tick during one pass of the loop
Tick == \E dt \in {0, 1} : elapsed' = elapsed + dt

\* heappop on an empty list raises IndexError
PopEmpty ==
    /\ pc = "loop" /\ elapsed < limit
    /\ queue = <<>>
    /\ pc' = "IndexError"
    /\ UNCHANGED <<inputVars, queue, cost_so_far, came_from, actions,
                   path, expanded, elapsed, called, returned>>

\* the popped state satisfies the goal: rebuild and return the path
PopGoal ==
    /\ pc = "loop" /\ elapsed < limit
    /\ queue # <<>>
    /\ LET current_state == queue[1][2]
       IN  /\ is_goal(goal, current_state)
           /\ path' = Reverse(<<<<current_state, actions[current_state]>>>>
                        \o Links(came_from, actions, came_from[current_state]))
    /\ queue' = Tail(queue)
    /\ pc' = "return_path"
    /\ UNCHANGED <<inputVars, cost_so_far, came_from, actions, expanded,
                   elapsed, called, returned>>

\* the popped state is not a goal: relax every neighbour
PopExpand ==
    /\ pc = "loop" /\ elapsed < limit
    /\ queue # <<>>
    /\ \E current_state \in {queue[1][2]} :
       \E triples \in {graph(all_recipes, current_state)} :
       \E t \in {Relax(triples, 1, current_state, h,
                      [cost_so_far |-> cost_so_far, actions |-> actions,
                       queue |-> Tail(queue), came_from |-> came_from])} :
           /\ ~ is_goal(goal, current_state)
           /\ WithinBound(triples)
           /\ queue' = t.queue
           /\ cost_so_far' = t.cost_so_far
           /\ came_from' = t.came_from
           /\ actions' = t.actions
           /\ expanded' = Append(expanded,
                  [priority |-> queue[1][1], state |-> current_state,
                   cost |-> cost_so_far[current_state]])
    /\ Tick
    /\ UNCHANGED <<inputVars, path, pc, called, returned>>

\* the loop condition fails: report the failure and return None
Timeout ==
    /\ pc = "loop" /\ ~ (elapsed < limit)
    /\ pc' = "return_None"
    /\ UNCHANGED <<inputVars, queue, cost_so_far, came_from, actions,
                   path, expanded, elapsed, called, returned>>

----------------------------------------------------------------------------
(* Inputs of search *)

\* recipes in the style of Crafting['Recipes']
Pool == <<
    [name |-> "punch for wood",
     rule |-> [Produces |-> [wood |-> 1], Time |-> 4]],
    [name |-> "craft bench",
     rule |-> [Consumes |-> [wood |-> 1], Produces |-> [bench |-> 1],
               Time |-> 1]],
    [name |-> "craft wooden_axe at bench",
     rule |-> [Requires |-> [bench |-> TRUE], Consumes |-> [wood |-> 1],
               Produces |-> [wooden_axe |-> 1], Time |-> 3]],
    [name |-> "trade benches",
     rule |-> [Consumes |-> [bench |-> 2], Produces |-> [wooden_axe |-> 1],
               Time |-> 0]],
    [name |-> "break wooden_axe",
     rule |-> [Consumes |-> [wooden_axe |-> 1], Produces |-> [bench |-> 2],
               Time |-> 0]],
    [name |-> "wooden_axe for wood",
     rule |-> [Requires |-> [wooden_axe |-> TRUE], Produces |-> [wood |-> 1],
               Time |-> 2]] >>

\* the recipe lists: up to MaxRecipes recipes of the pool, in the order of
\* the pool or in the opposite order
RecipeLists ==
    LET picks == {ps \in SUBSET DOMAIN Pool : Cardinality(ps) \in 1..MaxRecipes}
        nth(ps, k) == CHOOSE i \in ps : Cardinality({j \in ps : j <= i}) = k
        list(ps) == [k \in 1..Cardinality(ps) |->
                        Recipe(Pool[nth(ps, k)].name, Pool[nth(ps, k)].rule)]
    IN  {list(ps) : ps \in picks} \cup {Reverse(list(ps)) : ps \in picks}

Initials == {<<>>, [wooden_axe |-> 1], [bench |-> 1, wood |-> 1], [bench |-> 2]}

Goals == {<<>>, [wooden_axe |-> 1], [wood |-> 2], [bench |-> 1, wood |-> 1]}

Heuristics ==
    {[kind |-> "zero"], [kind |-> "shipped"]}
    \cup {[kind |-> "table", table |-> t] : t \in [0..1 -> {0, 3, inf}] \ {[i \in 0..1 |-> 0]}}

\* __main__ builds the rules
BuildRules ==
    /\ pc = "main"
    /\ all_recipes' \in RecipeLists
    /\ pc' = "rules"
    /\ UNCHANGED <<goal, state, limit, h, queue, cost_so_far, came_from,
                   actions, path, expanded, elapsed, called, returned>>

\* __main__ creates the function which checks for the goal
MakeGoal ==
    /\ pc = "rules"
    /\ goal' \in Goals
    /\ pc' = "goal"
    /\ UNCHANGED <<all_recipes, state, limit, h, queue, cost_so_far, came_from,
                   actions, path, expanded, elapsed, called, returned>>

\* __main__ initializes the first state from the initial inventory
MakeState ==
    /\ pc = "goal"
    /\ \E initial \in Initials : state' = NewState(initial)
    /\ pc' = "state"
    /\ UNCHANGED <<all_recipes, goal, limit, h, queue, cost_so_far, came_from,
                   actions, path, expanded, elapsed, called, returned>>

\* search queueing the start state at its heuristic value
SearchStart_hPriority ==
    /\ pc = "state"
    /\ limit' \in 0..MaxLimit
    /\ h' \in Heuristics
    /\ queue' = <<<<H(h', state), state>>>>
    /\ cost_so_far' = [s \in {state} |-> 0]
    /\ came_from' = [s \in {state} |-> None]
    /\ actions' = [s \in {state} |-> None]
    /\ path' = <<>>
    /\ expanded' = <<>>
    /\ \E dt \in {0, 1} : elapsed' = dt
    /\ pc' = "loop"
    /\ UNCHANGED <<all_recipes, goal, state, called, returned>>

\* __main__ calls search(graph, state, is_goal, limit, heuristic), which
\* runs up to its loop; the clock may advance between start_time = time()
\* and the first test of the loop condition
SearchStart ==
    /\ pc = "state"
    /\ limit' \in 0..MaxLimit
    /\ h' \in Heuristics
    /\ queue' = <<<<0, state>>>>
    /\ cost_so_far' = [s \in {state} |-> 0]
    /\ came_from' = [s \in {state} |-> None]
    /\ actions' = [s \in {state} |-> None]
    /\ path' = <<>>
    /\ expanded' = <<>>
    /\ \E dt \in {0, 1} : elapsed' = dt
    /\ pc' = "loop"
    /\ UNCHANGED <<all_recipes, goal, state, called, returned>>

----------------------------------------------------------------------------
(* Direct calls of the compiled functions on one state *)

\* the items a directly called rule may name in its clauses
ClauseItems == {"bench", "wood"}

\* a clause: a dict from some of the items to amounts
Clauses(items, amounts) == UNION {[ks -> amounts] : ks \in SUBSET items}

\* a rule dict minus the clauses it does not have
Rule(req, con, pro) ==
    [c \in {"Time"} \cup (IF req = None THEN {} ELSE {"Requires"})
                     \cup (IF con = None THEN {} ELSE {"Consumes"})
                     \cup (IF pro = None THEN {} ELSE {"Produces"}) |->
        CASE c = "Time" -> 1
          [] c = "Requires" -> req[1]
          [] c = "Consumes" -> con[1]
          [] c = "Produces" -> pro[1]]

Optional(S) == {None} \cup {Some(x) : x \in S}

RuleSpace ==
    {Rule(req, con, pro) :
        req \in Optional(Clauses(ClauseItems, {TRUE})),
        con \in Optional(Clauses(ClauseItems, (-1)..MaxAmt)),
        pro \in Optional(Clauses(ClauseItems, (-1)..MaxAmt))}

GoalSpace == Clauses(ItemSet, 0..MaxQty)

\* the states a function is called on directly; a negative quantity is
\* what malformed rule data could have produced
StateSpace == [ItemSet -> -1..MaxQty]

\* nothing has run yet
Init ==
    /\ all_recipes = <<>>
    /\ goal = <<>>
    /\ state = <<>>
    /\ limit = 0
    /\ h = [kind |-> "zero"]
    /\ queue = <<>>
    /\ cost_so_far = <<>>
    /\ came_from = <<>>
    /\ actions = <<>>
    /\ path = <<>>
    /\ expanded = <<>>
    /\ elapsed = 0
    /\ pc = "main"
    /\ called = None
    /\ returned = None

\* a state is built to call one compiled function on it
MakeArgument ==
    /\ pc = "main"
    /\ state' \in StateSpace
    /\ pc' = "call"
    /\ UNCHANGED <<all_recipes, goal, limit, h, queue, cost_so_far, came_from,
                   actions, path, expanded, elapsed, called, returned>>

\* make_checker(rule)(state)
CallCheck ==
    /\ pc = "call"
    /\ \E rule \in RuleSpace :
          /\ called' = [fn |-> "check", rule |-> rule]
          /\ returned' = [check |-> check(rule, state)]
    /\ pc' = "called"
    /\ UNCHANGED <<inputVars, queue, cost_so_far, came_from, actions,
                   path, expanded, elapsed>>

\* make_effector(rule)(state)
CallEffect ==
    /\ pc = "call"
    /\ \E rule \in RuleSpace :
          /\ called' = [fn |-> "effect", rule |-> rule]
          /\ returned' = [effect |-> effect(rule, state)]
    /\ pc' = "called"
    /\ UNCHANGED <<inputVars, queue, cost_so_far, came_from, actions,
                   path, expanded, elapsed>>

\* make_goal_checker(goal)(state)
CallIsGoal ==
    /\ pc = "call"
    /\ \E g \in GoalSpace :
          /\ goal' = g
          /\ called' = [fn |-> "is_goal"]
          /\ returned' = [is_goal |-> is_goal(g, state)]
    /\ pc' = "called"
    /\ UNCHANGED <<all_recipes, state, limit, h, queue, cost_so_far, came_from,
                   actions, path, expanded, elapsed>>

\* list(graph(state)) over a recipe list installed as all_recipes
CallGraph ==
    /\ pc = "call"
    /\ \E recipes \in RecipeLists :
          /\ all_recipes' = recipes
          /\ called' = [fn |-> "graph"]
          /\ returned' = [graph |-> graph(recipes, state)]
    /\ pc' = "called"
    /\ UNCHANGED <<goal, state, limit, h, queue, cost_so_far, came_from,
                   actions, path, expanded, elapsed>>

\* heuristic(state), on a state built for the call or on the start state
\* __main__ has built
CallHeuristic ==
    /\ pc \in {"call", "state"}
    /\ called' = [fn |-> "heuristic"]
    /\ returned' = [heuristic |-> heuristic(state)]
    /\ pc' = "called"
    /\ UNCHANGED <<inputVars, queue, cost_so_far, came_from, actions,
                   path, expanded, elapsed>>

----------------------------------------------------------------------------
(* The specification *)

Next ==
    \/ BuildRules
    \/ MakeGoal
    \/ MakeState
    \/ SearchStart
    \/ PopEmpty
    \/ PopGoal
    \/ PopExpand
    \/ Timeout
    \/ MakeArgument
    \/ CallCheck
    \/ CallEffect
    \/ CallIsGoal
    \/ CallGraph
    \/ CallHeuristic

Spec == Init /\ [][Next]_vars

\* one pass of the loop of search, however it ends
Loop == PopEmpty \/ PopGoal \/ PopExpand \/ Timeout

\* search runs on one thread that nothing preempts: while a pass of its loop
\* is possible, one is taken
LiveSpec == Spec /\ WF_vars(Loop)

----------------------------------------------------------------------------
(* What the recipes allow, independently of search *)

InBound(st) == \A k \in DOMAIN st : st[k] <= MaxQty

\* the (state, action, state, cost) steps the recipes allow from st
Steps(recipes, st) ==
    {<<st, r.name, effect(r.rule, st), r.cost>> :
        r \in {recipes[i] : i \in {j \in DOMAIN recipes : check(recipes[j].rule, st)}}}

\* one more round of steps from the states found last, those beyond the
\* explored quantities excepted
Grow(recipes, p) ==
    LET new == {e[3] : e \in UNION {Steps(recipes, st) :
                                       st \in {x \in p.frontier : InBound(x)}}}
                    \ p.seen
    IN  [seen |-> p.seen \cup new, frontier |-> new]

\* the states some action sequence leads to from the states seen; a state
\* beyond the explored quantities is kept but not followed further
RECURSIVE ReachableFrom(_, _)
ReachableFrom(recipes, p) ==
    IF p.frontier = {} THEN p.seen
    ELSE CHOOSE r \in {ReachableFrom(recipes, q) : q \in {Grow(recipes, p)}} : TRUE

Reachable == ReachableFrom(all_recipes, [seen |-> {state}, frontier |-> {state}])

\* the reachable state space is finite and lies within the explored quantities
FiniteSpace == \A st \in Reachable : InBound(st)

GoalReachable == \E st \in Reachable : is_goal(goal, st)

Min(S) == CHOOSE x \in S : \A y \in S : x <= y

\* the least total cost of an action sequence from the start state to each
\* reachable state, by relaxing every step until nothing changes
\* one relaxation of every step of E
Cheaper(E, d) ==
    [st \in DOMAIN d |->
        Min({d[st]} \cup {d[e[1]] + e[4] : e \in {x \in E : x[3] = st /\ d[x[1]] # inf}})]

RECURSIVE Cheapest(_, _)
Cheapest(E, d) ==
    CHOOSE r \in {IF d2 = d THEN d ELSE Cheapest(E, d2) : d2 \in {Cheaper(E, d)}} : TRUE

Dist ==
    CHOOSE d \in UNION {{Cheapest(UNION {Steps(all_recipes, st) :
                                            st \in {x \in R : InBound(x)}},
                                    [st \in R |-> IF st = state THEN 0 ELSE inf])} :
                            R \in {Reachable}} : TRUE

\* the least total cost of an action sequence from the start to a goal state
MinGoalCost ==
    CHOOSE m \in {Min({inf} \cup {d[st] : st \in {x \in DOMAIN d : is_goal(goal, x)}}) :
                     d \in {Dist}} : TRUE

\* the cost of the recipe called name
CostOf(name) ==
    (CHOOSE r \in {all_recipes[i] : i \in DOMAIN all_recipes} : r.name = name).cost

\* the sum of the costs of the actions of a path
RECURSIVE PathCostFrom(_, _)
PathCostFrom(p, i) ==
    IF i > Len(p) THEN 0 ELSE CostOf(p[i][2][1]) + PathCostFrom(p, i + 1)

PathCost(p) == PathCostFrom(p, 2)

----------------------------------------------------------------------------
(* Claims *)

\* C1: a returned path starts at the start state with action None, every
\* later link names a recipe applicable to the previous state whose effect
\* on it is the link's state, the last state satisfies the goal and no
\* earlier one does.
C1_PathIsAPlan ==
    pc = "return_path" =>
        /\ Len(path) >= 1
        /\ path[1] = <<state, None>>
        /\ \A i \in 2..Len(path) :
              \E j \in DOMAIN all_recipes :
                  /\ path[i][2] = Some(all_recipes[j].name)
                  /\ check(all_recipes[j].rule, path[i - 1][1])
                  /\ effect(all_recipes[j].rule, path[i - 1][1]) = path[i][1]
        /\ is_goal(goal, path[Len(path)][1])
        /\ \A i \in 1..(Len(path) - 1) : ~ is_goal(goal, path[i][1])

C1_Witness == pc = "return_path" /\ Len(path) >= 4 /\ h.kind = "table"

\* C2: with the always-zero heuristic a returned path costs the least total
\* cost of any action sequence from the start state to a goal state.
C2_ZeroHeuristicOptimal ==
    (pc = "return_path" /\ h.kind = "zero") => PathCost(path) = MinGoalCost

\* search has recorded a dearer goal state than the one it returns
C2_Witness ==
    /\ pc = "return_path" /\ h.kind = "zero"
    /\ \E st \in DOMAIN cost_so_far :
          is_goal(goal, st) /\ cost_so_far[st] > PathCost(path)

\* C3: with the shipped heuristic a returned path has the least total cost
\* of any action sequence from the start state to a goal state.
C3_ShippedHeuristicOptimal ==
    (pc = "return_path" /\ h.kind = "shipped") => PathCost(path) = MinGoalCost

\* search has ended, one way or another
Ended == pc \in {"return_path", "return_None", "IndexError"}

\* C4: when no goal state is reachable (and the reachable states are finitely
\* many, so that the frontier can run empty), search ends by returning None
\* and in no other way.
C4_UnreachableGoalReturnsNone ==
    (Ended /\ FiniteSpace /\ ~ GoalReachable) => pc = "return_None"

\* search is about to expand a state with a neighbour beyond the explored
\* quantities, where the model follows it no further
BeyondBound ==
    /\ pc = "loop" /\ elapsed < limit /\ queue # <<>>
    /\ ~ is_goal(goal, queue[1][2])
    /\ \E triples \in {graph(all_recipes, queue[1][2])} : ~ WithinBound(triples)

\* C5: when a goal state is reachable within a finite reachable state space,
\* search eventually returns, with a path unless the time limit elapsed,
\* whatever the heuristic. In three parts: a finite reachable state space
\* is never left; search in its loop eventually ends unless it leaves the
\* explored quantities; and with a finite space and a reachable goal it
\* ends with a path, or with None once the time limit has elapsed.
C5_EventuallyReturns ==
    /\ [](BeyondBound => ~ FiniteSpace)
    /\ [](pc = "loop" => <>(Ended \/ BeyondBound))
    /\ [](Ended =>
            \/ pc = "return_path"
            \/ pc = "return_None" /\ elapsed >= limit
            \/ ~ (FiniteSpace /\ GoalReachable))

\* a returned path runs through a state of infinite heuristic
C5_Witness ==
    /\ pc = "return_path" /\ h.kind = "table" /\ FiniteSpace
    /\ \E i \in 2..(Len(path) - 1) : H(h, path[i][1]) = inf

\* the amount a clause of a rule gives for an item, 0 if absent
Amount(rule, clause, k) ==
    IF clause \in DOMAIN rule /\ k \in DOMAIN rule[clause]
    THEN rule[clause][k] ELSE 0

NonNegative(st) == \A k \in DOMAIN st : st[k] >= 0

NonNegativeAmounts(rule) ==
    \A clause \in {"Produces", "Consumes"}, k \in ItemSet :
        Amount(rule, clause, k) >= 0

\* C6: the effect returns, for every item, the input quantity plus the
\* produced amount minus the consumed amount, also for an item in both
\* clauses.
C6_EffectAddsAndSubtracts ==
    (pc = "called" /\ called.fn = "effect") =>
        returned.effect = [k \in DOMAIN state |->
                      state[k] + Amount(called.rule, "Produces", k)
                               - Amount(called.rule, "Consumes", k)]

\* C7: on a state without negative quantities the precondition holds iff
\* every required item is present and every consumed item is available in
\* the consumed amount.
C7_CheckIffApplicable ==
    (pc = "called" /\ called.fn = "check" /\ NonNegative(state)) =>
        returned.check =
            (/\ \A k \in ItemSet :
                    ("Requires" \in DOMAIN called.rule
                        /\ k \in DOMAIN called.rule.Requires) => state[k] > 0
             /\ \A k \in ItemSet :
                    ("Consumes" \in DOMAIN called.rule
                        /\ k \in DOMAIN called.rule.Consumes)
                    => state[k] >= called.rule.Consumes[k])

\* a rule with both clauses is found applicable
C7_Witness ==
    /\ pc = "called" /\ called.fn = "check" /\ NonNegative(state)
    /\ "Requires" \in DOMAIN called.rule /\ DOMAIN called.rule.Requires # {}
    /\ "Consumes" \in DOMAIN called.rule
    /\ \E k \in DOMAIN called.rule.Consumes :
          called.rule.Consumes[k] > 0 /\ state[k] = called.rule.Consumes[k]
    /\ returned.check = TRUE

\* the states search holds in its tables and its frontier
Recorded ==
    DOMAIN cost_so_far \cup DOMAIN came_from \cup DOMAIN actions
    \cup {queue[i][2] : i \in DOMAIN queue}
    \cup {came_from[st][1] : st \in {x \in DOMAIN came_from : came_from[x] # None}}

\* C8: the effect of a rule with non-negative amounts, on a state without
\* negative quantities that passes the rule's precondition, has no negative
\* quantity; and every state search records has no negative quantity and
\* the keys of the start state.
C8_NoNegativeInventory ==
    /\ (pc = "called" /\ called.fn = "effect" /\ NonNegative(state)
            /\ NonNegativeAmounts(called.rule) /\ check(called.rule, state))
        => (NonNegative(returned.effect) /\ DOMAIN returned.effect = DOMAIN state)
    /\ (pc \in {"loop", "return_path", "return_None", "IndexError"})
        => \A st \in Recorded : NonNegative(st) /\ DOMAIN st = DOMAIN state

\* an effect uses up the whole stock of an item
C8_Witness ==
    /\ pc = "called" /\ called.fn = "effect" /\ NonNegative(state)
    /\ NonNegativeAmounts(called.rule) /\ check(called.rule, state)
    /\ \E k \in ItemSet :
          Amount(called.rule, "Consumes", k) > 0 /\ returned.effect[k] = 0

\* C9: the goal predicate holds iff every item named in the goal has at
\* least the required quantity; an empty goal holds of every state.
C9_GoalIffAllMinimaMet ==
    (pc = "called" /\ called.fn = "is_goal") =>
        returned.is_goal = (\A item \in DOMAIN goal : state[item] >= goal[item])

\* a goal over two items holds while the third item is absent
C9_Witness ==
    /\ pc = "called" /\ called.fn = "is_goal" /\ returned.is_goal = TRUE
    /\ Cardinality(DOMAIN goal) = 2
    /\ \A item \in DOMAIN goal : goal[item] > 0
    /\ \E k \in ItemSet \ DOMAIN goal : state[k] = 0

\* the positions of the recipes applicable to st
Applicable(recipes, st) == {i \in DOMAIN recipes : check(recipes[i].rule, st)}

\* C10: graph yields one triple (name, effect(state), cost) for each recipe
\* whose precondition holds, none for any other, in declaration order.
C10_GraphYieldsApplicable ==
    (pc = "called" /\ called.fn = "graph") =>
        LET app == Applicable(all_recipes, state)
            nth(k) == CHOOSE i \in app : Cardinality({j \in app : j <= i}) = k
        IN  /\ Len(returned.graph) = Cardinality(app)
            /\ \A k \in 1..Len(returned.graph) :
                  returned.graph[k] = <<all_recipes[nth(k)].name,
                                  effect(all_recipes[nth(k)].rule, state),
                                  all_recipes[nth(k)].cost>>

\* two recipes apply, around one that does not
C10_Witness ==
    /\ pc = "called" /\ called.fn = "graph"
    /\ Applicable(all_recipes, state) = {1, 3}
    /\ Len(returned.graph) = 2

\* C11: the shipped heuristic never exceeds the least total cost of an
\* action sequence from the state to a goal state, for a state that is not
\* a goal state itself and from which one is reachable.
C11_ShippedHeuristicAdmissible ==
    (pc = "called" /\ called.fn = "heuristic" /\ NonNegative(state)
        /\ ~ is_goal(goal, state) /\ GoalReachable)
    => returned.heuristic <= MinGoalCost

\* C14: the shipped heuristic returns inf when any listed tool the state
\* holds has a quantity above one, and zero otherwise.
C14_HeuristicChecksEveryTool ==
    (pc = "called" /\ called.fn = "heuristic" /\ NonNegative(state)) =>
        returned.heuristic =
            IF \E i \in DOMAIN tools :
                  tools[i] \in DOMAIN state /\ state[tools[i]] > 1
            THEN inf ELSE 0

\* C12: a popped entry whose priority is not the recorded cost of its state
\* plus the heuristic of that state is not expanded (the start entry, queued
\* at priority 0, aside), and no state is expanded again after a cheaper
\* entry for it was expanded.
C12_StaleEntriesSkipped ==
    /\ \A i \in DOMAIN expanded :
          i > 1 => expanded[i].priority
                      = Plus(expanded[i].cost, H(h, expanded[i].state))
    /\ \A i, j \in DOMAIN expanded :
          (i < j /\ expanded[i].state = expanded[j].state)
              => expanded[j].priority <= expanded[i].priority

\* C13: with the shipped heuristic, a state for which the heuristic returns
\* inf is never expanded and never lies on a returned path (the start state
\* aside, for which search never asks the heuristic).
C13_InfiniteHeuristicPruned ==
    h.kind = "shipped" =>
        /\ \A i \in DOMAIN expanded :
              expanded[i].state # state => heuristic(expanded[i].state) # inf
        /\ pc = "return_path" =>
              \A i \in DOMAIN path :
                  path[i][1] # state => heuristic(path[i][1]) # inf

\* C15 as stated: when the start state satisfies the goal and the time limit
\* is positive, search ends by returning the path [(start, None)], having
\* expanded nothing.
C15_PositiveLimitReturnsStart ==
    (Ended /\ is_goal(goal, state) /\ limit > 0) =>
        (pc = "return_path" /\ path = <<<<state, None>>>> /\ expanded = <<>>)

\* C15 amended: when the start state satisfies the goal and the time limit
\* has not elapsed at a test of the loop condition, the start is queued at
\* priority 0 with cost 0, no predecessor and no action, nothing has been
\* expanded, and that pass returns the path [(start, None)], whatever the
\* heuristic.
C15_GoalAtStartReturnsAtOnce ==
    [][(pc = "loop" /\ is_goal(goal, state) /\ elapsed < limit) =>
          /\ queue = <<<<0, state>>>>
          /\ cost_so_far = [s \in {state} |-> 0]
          /\ came_from = [s \in {state} |-> None]
          /\ actions = [s \in {state} |-> None]
          /\ pc' = "return_path"
          /\ path' = <<<<state, None>>>>
          /\ expanded' = <<>>]_vars

\* search has returned the start alone although its heuristic there is inf
C15_Witness ==
    /\ pc = "return_path" /\ is_goal(goal, state) /\ goal # <<>>
    /\ H(h, state) = inf
    /\ path = <<<<state, None>>>> /\ expanded = <<>>

\* C16: at every test of the loop condition the cost, predecessor and action
\* tables have the same keys, and every state in the frontier is one of them.
C16_TablesShareKeys ==
    pc = "loop" =>
        /\ DOMAIN cost_so_far = DOMAIN came_from
        /\ DOMAIN cost_so_far = DOMAIN actions
        /\ \A i \in DOMAIN queue : queue[i][2] \in DOMAIN cost_so_far

\* the tables hold four states or more, two of them in the frontier
C16_Witness ==
    /\ pc = "loop"
    /\ Cardinality(DOMAIN cost_so_far) >= 4
    /\ Cardinality({queue[i][2] : i \in DOMAIN queue}) >= 2

\* one more round of steps from the (state, total cost) pairs found last,
\* up to the total cost most
GrowCosts(recipes, most, p) ==
    LET new == UNION {{<<e[3], pr[2] + e[4]>> : e \in Steps(recipes, pr[1])} :
                         pr \in {x \in p.frontier : InBound(x[1])}}
        kept == {x \in new : x[2] <= most} \ p.seen
    IN  [seen |-> p.seen \cup kept, frontier |-> kept]

\* the pairs (s, c) such that some action sequence from the start state
\* leads to s at total cost c, for c up to most
RECURSIVE RealCostsFrom(_, _, _)
RealCostsFrom(recipes, most, p) ==
    IF p.frontier = {} THEN p.seen
    ELSE CHOOSE r \in {RealCostsFrom(recipes, most, q) :
                          q \in {GrowCosts(recipes, most, p)}} : TRUE

RealCosts(most) ==
    RealCostsFrom(all_recipes, most,
                  [seen |-> {<<state, 0>>}, frontier |-> {<<state, 0>>}])

Max(S) == CHOOSE x \in S : \A y \in S : y <= x

\* search is running or has ended
Searching == pc \in {"loop", "return_path", "return_None", "IndexError"}

\* what C17 says of one step of search
C17_Step ==
    pc = "loop" =>
        /\ \A s \in DOMAIN cost_so_far :
              s \in DOMAIN cost_so_far' /\ cost_so_far'[s] <= cost_so_far[s]
        /\ \A s \in DOMAIN cost_so_far' :
              (s \notin DOMAIN cost_so_far \/ cost_so_far'[s] # cost_so_far[s]) =>
                  /\ s \in DOMAIN cost_so_far => cost_so_far'[s] < cost_so_far[s]
                  /\ \E e \in Steps(all_recipes, queue[1][2]) :
                        /\ e[3] = s
                        /\ cost_so_far'[s] = cost_so_far[queue[1][2]] + e[4]
                  /\ \E i \in DOMAIN queue' :
                        queue'[i] = <<Plus(cost_so_far'[s], H(h, s)), s>>
        /\ \A i \in DOMAIN queue' :
              (queue' # queue /\ \A j \in 2..Len(queue) : queue'[i] # queue[j]) =>
                  \E e \in Steps(all_recipes, queue[1][2]) :
                      /\ queue'[i] = <<Plus(cost_so_far[queue[1][2]] + e[4],
                                            H(h, e[3])), e[3]>>
                      /\ \/ e[3] \notin DOMAIN cost_so_far
                         \/ cost_so_far[queue[1][2]] + e[4] < cost_so_far[e[3]]

\* C17: a recorded cost never increases and is at every moment the total
\* cost of some action sequence from the start state to its state, hence
\* never below the least such cost; a step of search writes a cost only
\* for a neighbour of the expanded state that had none or a dearer one, the
\* cost being the candidate cost, and pushes the neighbour at that cost
\* plus its heuristic; and it pushes nothing else.
C17_CostsAreRealAndDecrease ==
    /\ [](Searching =>
            \E real \in {RealCosts(Max({cost_so_far[s] : s \in DOMAIN cost_so_far}))} :
                \A s \in DOMAIN cost_so_far : <<s, cost_so_far[s]>> \in real)
    /\ [][C17_Step]_vars

\* the frontier holds two entries of one state: its cost was lowered
C17_Witness ==
    /\ pc = "loop"
    /\ \E i, j \in DOMAIN queue :
          queue[i][2] = queue[j][2] /\ queue[i][1] < queue[j][1]

\* following came_from from s reaches the start state within n links
RECURSIVE ReachesStart(_, _)
ReachesStart(s, n) ==
    IF came_from[s] = None THEN s = state
    ELSE n > 0 /\ ReachesStart(came_from[s][1], n - 1)

\* C18: throughout a search the start state keeps cost 0, predecessor None
\* and action None, and from every recorded state the predecessor links
\* lead to the start state without passing a state twice.
C18_PredecessorsAcyclic ==
    Searching =>
        /\ cost_so_far[state] = 0
        /\ came_from[state] = None
        /\ actions[state] = None
        /\ \A s \in DOMAIN came_from :
              ReachesStart(s, Cardinality(DOMAIN came_from) - 1)

\* search has expanded a state that a zero-cost recipe takes to a recorded
\* state of the same cost, its own predecessor included
C18_Witness ==
    /\ pc = "loop"
    /\ \E i \in DOMAIN expanded :
          /\ came_from[expanded[i].state] # None
          /\ \E e \in Steps(all_recipes, expanded[i].state) :
                /\ e[4] = 0
                /\ e[3] = came_from[expanded[i].state][1]
                /\ cost_so_far[e[3]] = cost_so_far[expanded[i].state]

\* C19: when search returns a path, the cost recorded for the path's last
\* state is the sum of the costs of the path's actions, whatever the
\* heuristic.
C19_ReportedCostIsPathCost ==
    pc = "return_path" =>
        cost_so_far[path[Len(path)][1]] = PathCost(path)

\* search returns a path after the cost of a state it had expanded was
\* lowered
C19_Witness ==
    /\ pc = "return_path" /\ Len(path) >= 2
    /\ \E i \in DOMAIN expanded :
          cost_so_far[expanded[i].state] < expanded[i].cost

====
